---- MODULE Spec2Model ----
(***************************************************************************)
(* Model of Database/api.py: fetch_financials builds a flat record from    *)
(* five provider facets (quick quote, company info, income statement,      *)
(* balance sheet, price history), save_to_mongodb inserts it into the      *)
(* collection, and the entry point prompts, builds, persists and reports.  *)
(***************************************************************************)
EXTENDS Integers, Sequences, FiniteSets, TLC

VARIABLES
  pc,             \* position of the entry point / of fetch_financials
  ticker,         \* the local `ticker` of the entry point (after .upper())
  data,           \* the dict `data` built by fetch_financials (= `result`)
  resp,           \* what the provider answered to the most recent call
  raisedCalls,    \* provider calls whose try block raised during this run
  divisors,       \* divisors of the divisions extract_current_ratio performed
  zeroLiabilitySheets, \* balance sheets read whose current liabilities were 0
  err,            \* exception caught by the entry point's except clause
  collection,     \* documents of the MongoDB collection, in insertion order
  nextId,         \* next ObjectId the driver generates
  out,            \* lines printed to stdout, as tags
  insertAttempts, \* number of insert_one calls made
  clock           \* utcnow() readings taken

vars == <<pc, ticker, data, resp, raisedCalls, divisors, zeroLiabilitySheets, err, collection,
          nextId, out, insertAttempts, clock>>

(***************************************************************************)
(* Bounds of the model.                                                    *)
(***************************************************************************)
MaxRows == 3      \* rows of a generated statement table
MaxPeriods == 1   \* period columns of a generated statement table
MaxBars == 3      \* daily bars of a generated price history
MaxCalls == 3     \* calls made by a client of the builder and the sink

TradingDays == 252

(***************************************************************************)
(* Python values.  None, NaN and inf are kept apart: NaN and inf are       *)
(* floats, they are truthy and they are not None.  A number is a reduced   *)
(* fraction n/d; "sqrt" is the square root of the reduced fraction n/d.    *)
(***************************************************************************)
None == [t |-> "none"]
NaN == [t |-> "nan"]
Inf == [t |-> "inf"]
Raise == [t |-> "raise"]
Str(s) == [t |-> "str", s |-> s]
Time(n) == [t |-> "time", n |-> n]
ObjectId(n) == [t |-> "oid", n |-> n]

RECURSIVE GCD(_, _)
GCD(a, b) == IF b = 0 THEN a ELSE GCD(b, a % b)

Abs(x) == IF x < 0 THEN -x ELSE x

Frac(n, d) ==
  LET g == GCD(Abs(n), Abs(d))
  IN  [t |-> "num", n |-> n \div g, d |-> d \div g]

Num(n) == [t |-> "num", n |-> n, d |-> 1]

Sqrt(n, d) ==
  LET g == GCD(Abs(n), Abs(d))
  IN  [t |-> "sqrt", n |-> n \div g, d |-> d \div g]

\* bool(v): None and 0 are falsy; NaN, inf and non-zero numbers are truthy
Truthy(v) ==
  CASE v.t = "none" -> FALSE
    [] v.t = "num" -> v.n # 0
    [] v.t = "str" -> v.s # ""
    [] OTHER -> TRUE

IsZero(v) == v.t = "num" /\ v.n = 0

\* a / b on the cell values of a DataFrame (numpy float64 arithmetic; a None
\* operand raises TypeError)
TrueDiv(a, b) ==
  CASE a.t = "none" \/ b.t = "none" -> Raise
    [] a.t = "nan" \/ b.t = "nan" -> NaN
    [] IsZero(b) -> IF IsZero(a) THEN NaN ELSE Inf
    [] OTHER -> Frac(a.n * b.d, a.d * b.n)

\* float(v)
Float(v) == IF v.t = "none" THEN Raise ELSE v

(***************************************************************************)
(* dicts                                                                   *)
(***************************************************************************)
EmptyDict == <<>>

Assign(d, k, v) == [x \in (DOMAIN d) \cup {k} |-> IF x = k THEN v ELSE d[x]]

Get(d, k) == IF k \in DOMAIN d THEN d[k] ELSE None

\* str.upper() on the strings the prompt can read
Upper(s) ==
  CASE s = "aapl" -> "AAPL"
    [] s = "Aapl" -> "AAPL"
    [] OTHER -> s

TickerInputs == {"aapl", "Aapl", "AAPL"}

(***************************************************************************)
(* Statement tables (DataFrames): a function from the row labels (the      *)
(* index) to the row's period values, most recent period first.            *)
(***************************************************************************)
Cell == {None, NaN, Num(0), Num(50), Num(100)}

\* value of every period before the most recent one
PriorPeriod == Num(7)

RowsOfLen(n) ==
  IF n = 0 THEN {<<>>}
  ELSE {[i \in 1..n |-> IF i = 1 THEN c ELSE PriorPeriod] : c \in Cell}

Tables(labels) ==
  UNION {UNION {[S -> RowsOfLen(n)] : n \in 0..MaxPeriods} :
           S \in {T \in SUBSET labels : Cardinality(T) <= MaxRows}}

\* bs.loc[key].iloc[0]; IndexError when the table has no period column
Iloc0(table, key) ==
  IF Len(table[key]) = 0 THEN Raise ELSE table[key][1]

(***************************************************************************)
(* fetch_financials, block by block.                                       *)
(***************************************************************************)
DocumentedKeys ==
  {"ticker", "timestamp", "last_price", "market_cap", "year_high", "year_low",
   "volume", "sector", "industry", "eps", "pe_ratio", "roe", "debt_to_equity",
   "profit_margin", "total_revenue", "current_ratio", "volatility", "liquidity"}

\* data = {"ticker": ticker_symbol.upper(), "timestamp": utcnow().isoformat()}
NewData(ticker_symbol, now) ==
  [ticker |-> Str(Upper(ticker_symbol)), timestamp |-> Time(now)]

\* data[fields[i][1]] = src.get(fields[i][2]) for i = 1..k, in order
RECURSIVE AssignFrom(_, _, _, _)
AssignFrom(d, fields, src, k) ==
  IF k = 0 THEN d
  ELSE Assign(AssignFrom(d, fields, src, k - 1), fields[k][1], Get(src, fields[k][2]))

RECURSIVE AssignNone(_, _, _)
AssignNone(d, fields, k) ==
  IF k = 0 THEN d ELSE Assign(AssignNone(d, fields, k - 1), fields[k][1], None)

QuoteFields ==
  << <<"last_price", "lastPrice">>, <<"market_cap", "marketCap">>,
     <<"year_high", "yearHigh">>, <<"year_low", "yearLow">>,
     <<"volume", "lastVolume">> >>

QuoteKeys == {QuoteFields[i][1] : i \in DOMAIN QuoteFields}

\* the quick-quote block: five reads of t.fast_info, outside any try
QuoteBlock(d, fast) == AssignFrom(d, QuoteFields, fast, Len(QuoteFields))

InfoFields ==
  << <<"sector", "sector">>, <<"industry", "industry">>, <<"eps", "trailingEps">>,
     <<"pe_ratio", "trailingPE">>, <<"roe", "returnOnEquity">>,
     <<"debt_to_equity", "debtToEquity">>, <<"profit_margin", "profitMargins">> >>

InfoKeys == {InfoFields[i][1] : i \in DOMAIN InfoFields}

\* except handler of the info block that only nulls the keys still missing
InfoExcept_KeepAssigned(d) ==
  [k \in (DOMAIN d) \cup InfoKeys |-> IF k \in DOMAIN d THEN d[k] ELSE None]

\* except: all seven fields = None
InfoExcept(d) == AssignNone(d, InfoFields, Len(InfoFields))

\* the info block; r.assigned fields were assigned when the try body raised
InfoBlock(d, r) ==
  IF r.raises
  THEN InfoExcept(AssignFrom(d, InfoFields, r.payload, r.assigned))
  ELSE AssignFrom(d, InfoFields, r.payload, Len(InfoFields))

possible_revenue_rows == <<"Total Revenue", "TotalRevenue">>
asset_keys == <<"Total Current Assets", "Current Assets", "CurrentAssets">>
liability_keys ==
  <<"Total Current Liabilities", "Current Liabilities", "CurrentLiabilities">>

\* the alias loop without its break: the last alias present wins
LookupLast(table, names, i) ==
  LET present == {j \in i..Len(names) : names[j] \in DOMAIN table}
  IN  IF present = {} THEN None
      ELSE Iloc0(table, names[CHOOSE j \in present : \A k \in present : k <= j])

RECURSIVE Lookup(_, _, _)
\* for name in names: if name in table.index: v = table.loc[name].iloc[0]; break
Lookup(table, names, i) ==
  IF i > Len(names) THEN None
  ELSE IF names[i] \in DOMAIN table THEN Iloc0(table, names[i])
  ELSE Lookup(table, names, i + 1)

\* body of the revenue try block once get_financials has returned fin
RevenueTry(fin) ==
  LET revenue_value == Lookup(fin, possible_revenue_rows, 1)
  IN  IF revenue_value = Raise THEN Raise
      ELSE IF Truthy(revenue_value) THEN Float(revenue_value) ELSE None

RevenueRaised(r) == r.raises \/ RevenueTry(r.payload) = Raise

\* except handler that leaves the key unset
RevenueExcept_Pass(d) == d

RevenueExcept(d) == Assign(d, "total_revenue", None)

RevenueBlock(d, r) ==
  IF RevenueRaised(r) THEN RevenueExcept(d)
  ELSE Assign(d, "total_revenue", RevenueTry(r.payload))

\* guard that only looks at the assets
RatioGuard_AssetsOnly(curr_assets, curr_liabilities) == Truthy(curr_assets)

\* if curr_assets and curr_liabilities and curr_liabilities != 0
RatioGuard(curr_assets, curr_liabilities) ==
  Truthy(curr_assets) /\ Truthy(curr_liabilities) /\ ~IsZero(curr_liabilities)

\* extract_current_ratio(bs): ret is the value returned (Raise when an
\* exception leaves the function), div the divisors of the divisions made,
\* zero whether the guard saw current liabilities equal to 0
extract_current_ratio(bs) ==
  LET curr_assets == Lookup(bs, asset_keys, 1)
      curr_liabilities == Lookup(bs, liability_keys, 1)
  IN  IF curr_assets = Raise \/ curr_liabilities = Raise
      THEN [ret |-> Raise, div |-> {}, zero |-> FALSE]
      ELSE IF RatioGuard(curr_assets, curr_liabilities)
      THEN [ret |-> TrueDiv(curr_assets, curr_liabilities), div |-> {curr_liabilities},
            zero |-> IsZero(curr_liabilities)]
      ELSE [ret |-> None, div |-> {}, zero |-> IsZero(curr_liabilities)]

BalanceRaised(r) == r.raises \/ extract_current_ratio(r.payload).ret = Raise

BalanceDivisors(r) ==
  IF r.raises THEN {} ELSE extract_current_ratio(r.payload).div

BalanceZeroLiabilities(r) ==
  IF ~r.raises /\ extract_current_ratio(r.payload).zero THEN 1 ELSE 0

\* try: data["current_ratio"] = extract_current_ratio(sheet)
\* except: data["current_ratio"] = None       (annual and quarterly alike)
BalanceBlock(d, r) ==
  IF BalanceRaised(r) THEN Assign(d, "current_ratio", None)
  ELSE Assign(d, "current_ratio", extract_current_ratio(r.payload).ret)

\* the quarterly sheet is fetched whatever the annual step gave
NeedsQuarterly_Always(d) == TRUE

\* if data["current_ratio"] is None
NeedsQuarterly(d) == d["current_ratio"] = None

RECURSIVE SumSeq(_)
SumSeq(s) == IF Len(s) = 0 THEN 0 ELSE Head(s) + SumSeq(Tail(s))

RECURSIVE ProdSeq(_)
ProdSeq(s) == IF Len(s) = 0 THEN 1 ELSE Head(s) * ProdSeq(Tail(s))

\* float(hist["Close"].pct_change().std() * np.sqrt(252)).  The daily returns
\* r_i = (c_{i+1} - c_i) / c_i are kept over the common denominator D; std()
\* is the sample standard deviation (ddof = 1) of the non-NaN returns and is
\* NaN, not an exception, when there are fewer than two of them.
Volatility(bars) ==
  LET n == Len(bars)
      m == IF n = 0 THEN 0 ELSE n - 1
      D == ProdSeq([i \in 1..m |-> bars[i].close])
      R == [i \in 1..m |-> (bars[i + 1].close - bars[i].close) * (D \div bars[i].close)]
      S1 == SumSeq(R)
      S2 == SumSeq([i \in 1..m |-> R[i] * R[i]])
  IN  IF m < 2 THEN NaN
      ELSE Sqrt(TradingDays * (m * S2 - S1 * S1), m * (m - 1) * D * D)

\* float((hist["Close"] * hist["Volume"]).mean()); the mean of nothing is NaN
Liquidity(bars) ==
  LET n == Len(bars)
  IN  IF n = 0 THEN NaN
      ELSE Frac(SumSeq([i \in 1..n |-> bars[i].close * bars[i].volume]), n)

\* hist["Close"] or hist["Volume"] raises KeyError when the column is missing
HistoryRaised(r) ==
  r.raises \/ "Close" \notin r.payload.cols \/ "Volume" \notin r.payload.cols

HistoryExcept(d) == Assign(Assign(d, "volatility", None), "liquidity", None)

HistoryBlock(d, r) ==
  IF r.raises \/ "Close" \notin r.payload.cols THEN HistoryExcept(d)
  ELSE IF "Volume" \notin r.payload.cols
  THEN HistoryExcept(Assign(d, "volatility", Volatility(r.payload.bars)))
  ELSE Assign(Assign(d, "volatility", Volatility(r.payload.bars)),
              "liquidity", Liquidity(r.payload.bars))

(***************************************************************************)
(* save_to_mongodb and the driver's insert_one.                            *)
(***************************************************************************)
NoError == "none"

Ids(coll) == {coll[i]["_id"] : i \in DOMAIN coll}

\* insert that replaces the stored document of the same ticker, if any
insert_one_Upsert(coll, doc, id, up) ==
  LET d2 == IF "_id" \in DOMAIN doc THEN doc ELSE Assign(doc, "_id", ObjectId(id))
      same == {i \in DOMAIN coll : coll[i]["ticker"] = d2["ticker"]}
  IN  IF ~up
      THEN [err |-> "ServerSelectionTimeoutError", doc |-> d2, coll |-> coll]
      ELSE IF same # {}
      THEN [err |-> NoError, doc |-> d2,
            coll |-> [i \in DOMAIN coll |-> IF i \in same THEN d2 ELSE coll[i]]]
      ELSE [err |-> NoError, doc |-> d2, coll |-> Append(coll, d2)]

\* insert that stores the document without the derived price-history fields
insert_one_Strip(coll, doc, id, up) ==
  LET d1 == [k \in (DOMAIN doc) \ {"volatility", "liquidity"} |-> doc[k]]
      d2 == IF "_id" \in DOMAIN d1 THEN d1 ELSE Assign(d1, "_id", ObjectId(id))
  IN  IF ~up
      THEN [err |-> "ServerSelectionTimeoutError", doc |-> d2, coll |-> coll]
      ELSE IF d2["_id"] \in Ids(coll)
      THEN [err |-> "DuplicateKeyError", doc |-> d2, coll |-> coll]
      ELSE [err |-> NoError, doc |-> d2, coll |-> Append(coll, d2)]

\* collection.insert_one(doc): the driver adds an "_id" to the caller's dict
\* when it has none, before anything is sent; the server refuses a document
\* whose _id is already in the collection (the _id index is unique)
insert_one(coll, doc, id, up) ==
  LET d2 == IF "_id" \in DOMAIN doc THEN doc ELSE Assign(doc, "_id", ObjectId(id))
  IN  IF ~up
      THEN [err |-> "ServerSelectionTimeoutError", doc |-> d2, coll |-> coll]
      ELSE IF d2["_id"] \in Ids(coll)
      THEN [err |-> "DuplicateKeyError", doc |-> d2, coll |-> coll]
      ELSE [err |-> NoError, doc |-> d2, coll |-> Append(coll, d2)]

Line(tag) == [line |-> tag]
RecordLine(rec) == [line |-> "record", rec |-> rec]

\* a sink that swallows the insert error and reports success
save_to_mongodb_Swallow(coll, doc, id, up) ==
  LET r == insert_one(coll, doc, id, up)
  IN  [err |-> NoError, doc |-> r.doc, coll |-> r.coll, printed |-> <<Line("saved")>>]

\* save_to_mongodb(data): insert, then print; an insert error propagates
save_to_mongodb(coll, doc, id, up) ==
  LET r == insert_one(coll, doc, id, up)
  IN  [err |-> r.err, doc |-> r.doc, coll |-> r.coll,
       printed |-> IF r.err = NoError THEN <<Line("saved")>> ELSE <<>>]

(***************************************************************************)
(* What the provider can answer.                                           *)
(***************************************************************************)
FastInfos ==
  {[lastPrice |-> Num(150), marketCap |-> Num(3000), yearHigh |-> Num(200),
    lastVolume |-> Num(50)]}

InfoDicts ==
  {[sector |-> Str("Technology"), industry |-> Str("Consumer Electronics"),
    trailingEps |-> Num(6), returnOnEquity |-> Num(1), debtToEquity |-> Num(150),
    profitMargins |-> Num(0)]}

FastResponses ==
  {[call |-> "fast_info", raises |-> TRUE, payload |-> EmptyDict]}
  \cup {[call |-> "fast_info", raises |-> FALSE, payload |-> f] : f \in FastInfos}

InfoResponses ==
  {[call |-> "get_info", raises |-> TRUE, assigned |-> 0, payload |-> EmptyDict]}
  \cup {[call |-> "get_info", raises |-> TRUE, assigned |-> k, payload |-> i] :
          k \in 1..(Len(InfoFields) - 1), i \in InfoDicts}
  \cup {[call |-> "get_info", raises |-> FALSE, assigned |-> Len(InfoFields),
         payload |-> i] : i \in InfoDicts}

Labels(names) == {names[i] : i \in DOMAIN names}

TableResponses(call, labels) ==
  {[call |-> call, raises |-> TRUE, payload |-> EmptyDict]}
  \cup {[call |-> call, raises |-> FALSE, payload |-> tb] : tb \in Tables(labels)}

FinResponses == TableResponses("get_financials", Labels(possible_revenue_rows))

SheetLabels == Labels(asset_keys) \cup Labels(liability_keys)

AnnualResponses == TableResponses("get_balance_sheet", SheetLabels)

QuarterlyResponses == TableResponses("get_quarterly_balance_sheet", SheetLabels)

Bar == [close : {1, 2}, volume : {0, 3}]

BarSeqs == UNION {[1..n -> Bar] : n \in 0..MaxBars}

HistoryResponses ==
  {[call |-> "history", raises |-> TRUE, payload |-> [cols |-> {}, bars |-> <<>>]]}
  \cup {[call |-> "history", raises |-> FALSE, payload |-> [cols |-> c, bars |-> b]] :
          c \in {{"Close", "Volume"}, {"Close"}, {"Volume"}}, b \in BarSeqs}

NoResponse == [call |-> "none"]

(***************************************************************************)
(* The entry point, step by step.                                          *)
(***************************************************************************)
Init ==
  /\ pc = "prompt"
  /\ ticker = ""
  /\ data = EmptyDict
  /\ resp = NoResponse
  /\ raisedCalls = {}
  /\ divisors = {}
  /\ zeroLiabilitySheets = 0
  /\ err = NoError
  /\ collection = <<>>
  /\ nextId = 1
  /\ out = <<>>
  /\ insertAttempts = 0
  /\ clock = 0

\* ticker = input(...).upper(); print("Fetching financial data...")
PromptThen(to) ==
  /\ pc = "prompt"
  /\ \E s \in TickerInputs : ticker' = Upper(s)
  /\ out' = Append(out, Line("fetching"))
  /\ pc' = to
  /\ UNCHANGED <<data, resp, raisedCalls, divisors, zeroLiabilitySheets, err, collection, nextId,
                 insertAttempts, clock>>

Prompt == PromptThen("call_fast_info")

\* the provider answers the call the builder is blocked on
Answer(at, responses, to) ==
  /\ pc = at
  /\ \E r \in responses : resp' = r
  /\ pc' = to
  /\ UNCHANGED <<ticker, data, raisedCalls, divisors, zeroLiabilitySheets, err, collection, nextId, out,
                 insertAttempts, clock>>

CallFastInfo == Answer("call_fast_info", FastResponses, "quote")
CallGetInfo == Answer("call_get_info", InfoResponses, "info")
CallGetFinancials == Answer("call_get_financials", FinResponses, "revenue")
CallGetBalanceSheet == Answer("call_get_balance_sheet", AnnualResponses, "annual")
CallGetQuarterlyBalanceSheet ==
  Answer("call_get_quarterly_balance_sheet", QuarterlyResponses, "quarterly")
CallHistory == Answer("call_history", HistoryResponses, "history")

\* fetch_financials up to the end of the quick-quote block; an exception of
\* fast_info leaves fetch_financials and reaches the entry point's except
QuickQuote ==
  /\ pc = "quote"
  /\ clock' = clock + 1
  /\ IF resp.raises
     THEN /\ data' = NewData(ticker, clock')
          /\ raisedCalls' = raisedCalls \cup {resp.call}
          /\ err' = "ProviderError"
          /\ pc' = "except"
     ELSE /\ data' = QuoteBlock(NewData(ticker, clock'), resp.payload)
          /\ pc' = "call_get_info"
          /\ UNCHANGED <<raisedCalls, err>>
  /\ resp' = NoResponse
  /\ UNCHANGED <<ticker, divisors, zeroLiabilitySheets, collection, nextId, out, insertAttempts>>

Info ==
  /\ pc = "info"
  /\ data' = InfoBlock(data, resp)
  /\ raisedCalls' = IF resp.raises THEN raisedCalls \cup {resp.call} ELSE raisedCalls
  /\ resp' = NoResponse
  /\ pc' = "call_get_financials"
  /\ UNCHANGED <<ticker, divisors, zeroLiabilitySheets, err, collection, nextId, out, insertAttempts, clock>>

Revenue ==
  /\ pc = "revenue"
  /\ data' = RevenueBlock(data, resp)
  /\ raisedCalls' = IF RevenueRaised(resp) THEN raisedCalls \cup {resp.call}
                    ELSE raisedCalls
  /\ resp' = NoResponse
  /\ pc' = "call_get_balance_sheet"
  /\ UNCHANGED <<ticker, divisors, zeroLiabilitySheets, err, collection, nextId, out, insertAttempts, clock>>

Annual ==
  /\ pc = "annual"
  /\ data' = BalanceBlock(data, resp)
  /\ raisedCalls' = IF BalanceRaised(resp) THEN raisedCalls \cup {resp.call}
                    ELSE raisedCalls
  /\ divisors' = divisors \cup BalanceDivisors(resp)
  /\ zeroLiabilitySheets' = zeroLiabilitySheets + BalanceZeroLiabilities(resp)
  /\ resp' = NoResponse
  /\ pc' = IF NeedsQuarterly(data') THEN "call_get_quarterly_balance_sheet"
           ELSE "call_history"
  /\ UNCHANGED <<ticker, err, collection, nextId, out, insertAttempts, clock>>

Quarterly ==
  /\ pc = "quarterly"
  /\ data' = BalanceBlock(data, resp)
  /\ raisedCalls' = IF BalanceRaised(resp) THEN raisedCalls \cup {resp.call}
                    ELSE raisedCalls
  /\ divisors' = divisors \cup BalanceDivisors(resp)
  /\ zeroLiabilitySheets' = zeroLiabilitySheets + BalanceZeroLiabilities(resp)
  /\ resp' = NoResponse
  /\ pc' = "call_history"
  /\ UNCHANGED <<ticker, err, collection, nextId, out, insertAttempts, clock>>

\* the price-history block and `return data`
History ==
  /\ pc = "history"
  /\ data' = HistoryBlock(data, resp)
  /\ raisedCalls' = IF HistoryRaised(resp) THEN raisedCalls \cup {resp.call}
                    ELSE raisedCalls
  /\ resp' = NoResponse
  /\ pc' = "save"
  /\ UNCHANGED <<ticker, divisors, zeroLiabilitySheets, err, collection, nextId, out, insertAttempts, clock>>

\* print("Saving to MongoDB..."); save_to_mongodb(result)
Save ==
  /\ pc = "save"
  /\ \E up \in BOOLEAN :
       LET r == save_to_mongodb(collection, data, nextId, up)
       IN  /\ data' = r.doc
           /\ collection' = r.coll
           /\ err' = r.err
           /\ out' = Append(out, Line("saving")) \o r.printed
           /\ pc' = IF r.err = NoError THEN "report" ELSE "except"
  /\ nextId' = nextId + 1
  /\ insertAttempts' = insertAttempts + 1
  /\ UNCHANGED <<ticker, resp, raisedCalls, divisors, zeroLiabilitySheets, clock>>

\* print("Completed!"); print(result)
Report ==
  /\ pc = "report"
  /\ out' = out \o <<Line("completed"), RecordLine(data)>>
  /\ pc' = "done"
  /\ UNCHANGED <<ticker, data, resp, raisedCalls, divisors, zeroLiabilitySheets, err, collection, nextId,
                 insertAttempts, clock>>

\* except Exception as e: print("Error:", e)
HandleError ==
  /\ pc = "except"
  /\ out' = Append(out, Line("error"))
  /\ pc' = "done"
  /\ UNCHANGED <<ticker, data, resp, raisedCalls, divisors, zeroLiabilitySheets, err, collection, nextId,
                 insertAttempts, clock>>

Next ==
  \/ Prompt
  \/ CallFastInfo
  \/ QuickQuote
  \/ CallGetInfo
  \/ Info
  \/ CallGetFinancials
  \/ Revenue
  \/ CallGetBalanceSheet
  \/ Annual
  \/ CallGetQuarterlyBalanceSheet
  \/ Quarterly
  \/ CallHistory
  \/ History
  \/ Save
  \/ Report
  \/ HandleError

Spec == Init /\ [][Next]_vars

(***************************************************************************)
(* fetch_financials as one call, and a client that calls the builder and   *)
(* the sink directly, any number of times up to MaxCalls each.             *)
(***************************************************************************)
fetch_financials(ticker_symbol, now, P) ==
  IF P.fast.raises THEN Raise
  ELSE LET d1 == QuoteBlock(NewData(ticker_symbol, now), P.fast.payload)
           d2 == InfoBlock(d1, P.info)
           d3 == RevenueBlock(d2, P.fin)
           d4 == BalanceBlock(d3, P.annual)
           d5 == IF NeedsQuarterly(d4) THEN BalanceBlock(d4, P.quarterly) ELSE d4
       IN  HistoryBlock(d5, P.hist)

ClientSheets ==
  {[call |-> "get_balance_sheet", raises |-> TRUE, payload |-> EmptyDict],
   [call |-> "get_balance_sheet", raises |-> FALSE,
    payload |-> [k \in {"Current Assets", "Current Liabilities"} |->
                   IF k = "Current Assets" THEN <<Num(100)>> ELSE <<Num(50)>>]]}

ClientHistory ==
  [call |-> "history", raises |-> FALSE,
   payload |-> [cols |-> {"Close", "Volume"},
                bars |-> <<[close |-> 1, volume |-> 3], [close |-> 2, volume |-> 3],
                           [close |-> 1, volume |-> 3]>>]]

\* a provider whose fast_info raises, one where only the quick quote works,
\* and one where every facet answers
ClientProviders ==
  [fast : FastResponses,
   info : {r \in InfoResponses : r.assigned = 0},
   fin : {r \in FinResponses : r.raises},
   annual : {r \in ClientSheets : r.raises},
   quarterly : {r \in QuarterlyResponses : r.raises},
   hist : {r \in HistoryResponses : r.raises}]
  \cup
  [fast : {r \in FastResponses : ~r.raises},
   info : {r \in InfoResponses : ~r.raises},
   fin : {r \in FinResponses : r.raises},
   annual : {r \in ClientSheets : ~r.raises},
   quarterly : {r \in QuarterlyResponses : r.raises},
   hist : {ClientHistory}]

SinkInit ==
  /\ pc = "client"
  /\ ticker = "AAPL"
  /\ data = EmptyDict
  /\ resp = NoResponse
  /\ raisedCalls = {}
  /\ divisors = {}
  /\ zeroLiabilitySheets = 0
  /\ err = NoError
  /\ collection = <<>>
  /\ nextId = 1
  /\ out = <<>>
  /\ insertAttempts = 0
  /\ clock = 0

\* result = fetch_financials(ticker)
ClientBuild ==
  /\ pc = "client"
  /\ clock < MaxCalls
  /\ clock' = clock + 1
  /\ \E P \in ClientProviders :
       LET r == fetch_financials(ticker, clock', P)
       IN  IF r = Raise
           THEN /\ err' = "ProviderError"
                /\ UNCHANGED data
           ELSE /\ err' = NoError
                /\ data' = r
  /\ UNCHANGED <<pc, ticker, resp, raisedCalls, divisors, zeroLiabilitySheets,
                 collection, nextId, out, insertAttempts>>

\* save_to_mongodb(result), on the record the client holds
ClientSave ==
  /\ pc = "client"
  /\ insertAttempts < MaxCalls
  /\ data # EmptyDict
  /\ \E up \in BOOLEAN :
       LET r == save_to_mongodb(collection, data, nextId, up)
       IN  /\ data' = r.doc
           /\ collection' = r.coll
           /\ err' = r.err
           /\ out' = out \o r.printed
  /\ nextId' = nextId + 1
  /\ insertAttempts' = insertAttempts + 1
  /\ UNCHANGED <<pc, ticker, resp, raisedCalls, divisors, zeroLiabilitySheets, clock>>

SinkNext ==
  \/ ClientBuild
  \/ ClientSave

SinkSpec == SinkInit /\ [][SinkNext]_vars

(***************************************************************************)
(* The entry point with fetch_financials as a single call.                 *)
(***************************************************************************)
EntryProviders ==
  [fast : FastResponses,
   info : {r \in InfoResponses : r.assigned \in {0, 3, Len(InfoFields)}},
   fin : {r \in FinResponses :
            r.raises \/ r.payload = [k \in {"TotalRevenue"} |-> <<Num(100)>>]},
   annual : ClientSheets,
   quarterly : {r \in QuarterlyResponses : r.raises},
   hist : {r \in HistoryResponses : r.raises \/ Len(r.payload.bars) <= 1}
          \cup {ClientHistory}]

EntryPrompt == PromptThen("build")

\* result = fetch_financials(ticker)
EntryBuild ==
  /\ pc = "build"
  /\ clock' = clock + 1
  /\ \E P \in EntryProviders :
       LET r == fetch_financials(ticker, clock', P)
       IN  IF r = Raise
           THEN /\ data' = NewData(ticker, clock')
                /\ err' = "ProviderError"
                /\ pc' = "except"
           ELSE /\ data' = r
                /\ pc' = "save"
                /\ UNCHANGED err
  /\ UNCHANGED <<ticker, resp, raisedCalls, divisors, zeroLiabilitySheets, collection,
                 nextId, out, insertAttempts>>

EntryNext ==
  \/ EntryPrompt
  \/ EntryBuild
  \/ Save
  \/ Report
  \/ HandleError

\* the script is one sequential thread: it takes its next step whenever it has one
EntrySpec == Init /\ [][EntryNext]_vars /\ WF_vars(EntryNext)

(***************************************************************************)
(* Properties.                                                             *)
(***************************************************************************)
HasKey(k) == k \in DOMAIN data

\* fetch_financials has just returned `data` to the entry point
Returned == pc = "save"

AllNone(keys) == \A k \in keys : HasKey(k) /\ data[k] = None

FailedFacetsNull ==
  /\ "get_info" \in raisedCalls => AllNone(InfoKeys)
  /\ "get_financials" \in raisedCalls => AllNone({"total_revenue"})
  /\ {"get_balance_sheet", "get_quarterly_balance_sheet"} \subseteq raisedCalls
       => AllNone({"current_ratio"})
  /\ "history" \in raisedCalls => AllNone({"volatility", "liquidity"})

\* C1: whatever the facets did, a record returned by fetch_financials has
\* exactly the eighteen documented keys, and the fields of a facet whose try
\* block raised are present with value None.
C1_ExactKeySet == Returned => (DOMAIN data = DocumentedKeys /\ FailedFacetsNull)

C1_Witness ==
  /\ Returned
  /\ {"get_info", "get_financials", "history"} \subseteq raisedCalls
  /\ DOMAIN data = DocumentedKeys
  /\ data["current_ratio"] # None

\* C2: fetch_financials never raises because a facet's provider call raised:
\* whenever it has ended after some provider call raised, it has returned a
\* full record in which the failed facets' fields are None.
C2_FacetFailureNeverRaises ==
  (raisedCalls # {} /\ (Returned \/ (pc = "except" /\ insertAttempts = 0)))
    => (Returned /\ err = NoError /\ DOMAIN data = DocumentedKeys /\ FailedFacetsNull)

\* C3: once the info block's try body has raised (get_info itself or a later
\* read, after any number of the seven fields were assigned), all seven
\* fields are None, in the block's result and in the returned record.
C3_InfoAllNullTogether == "get_info" \in raisedCalls => AllNone(InfoKeys)

C3_Witness ==
  /\ Returned
  /\ "get_info" \in raisedCalls
  /\ AllNone(InfoKeys)
  /\ data["last_price"] # None

\* the first alias of `names` that labels a row of `sheet`, 0 if none does
FirstAlias(sheet, names) ==
  LET present == {i \in DOMAIN names : names[i] \in DOMAIN sheet}
  IN  IF present = {} THEN 0 ELSE CHOOSE i \in present : \A j \in present : i <= j

Usable(v) == v # None /\ ~(v.t = "num" /\ v.n = 0)

\* extract(sheet) as C4 words it; None when the fetch raised
C4_Extract(r) ==
  IF r.raises THEN None
  ELSE LET sheet == r.payload
           ia == FirstAlias(sheet, asset_keys)
           il == FirstAlias(sheet, liability_keys)
       IN  IF ia = 0 \/ il = 0 THEN None
           ELSE IF Len(sheet[asset_keys[ia]]) = 0 THEN None
           ELSE LET a == sheet[asset_keys[ia]][1]
                    l == sheet[liability_keys[il]][1]
                IN  IF ~(Usable(a) /\ Usable(l)) THEN None
                    ELSE IF a = NaN \/ l = NaN THEN NaN
                    ELSE Frac(a.n, l.n)

C4_Step ==
  /\ pc = "annual" =>
       /\ data'["current_ratio"] = C4_Extract(resp)
       /\ (C4_Extract(resp) = None) <=> (pc' = "call_get_quarterly_balance_sheet")
       /\ (C4_Extract(resp) # None) <=> (pc' = "call_history")
  /\ pc' = "call_get_quarterly_balance_sheet" => pc = "annual"
  /\ pc = "quarterly" => data'["current_ratio"] = C4_Extract(resp)
  /\ (pc \notin {"annual", "quarterly"} /\ HasKey("current_ratio")) =>
       ("current_ratio" \in DOMAIN data' /\ data'["current_ratio"] = data["current_ratio"])

\* C4: current_ratio is extract(annual) when that is not None, and then the
\* quarterly sheet is not fetched; otherwise the quarterly sheet is fetched
\* and current_ratio is extract(quarterly) (None when that fetch raises);
\* nothing later changes it.
C4_AnnualThenQuarterly == [][C4_Step]_vars

C4_Witness ==
  /\ Returned
  /\ "get_balance_sheet" \in raisedCalls
  /\ "get_quarterly_balance_sheet" \notin raisedCalls
  /\ data["current_ratio"] = Num(2)

\* C5: no division is made with current liabilities equal to 0, no infinite
\* or undefined ratio is stored, and when the liabilities are 0 in both the
\* annual and the quarterly sheet the current_ratio is None.
C5_DivisionGuarded ==
  /\ \A d \in divisors : ~(d.t = "num" /\ d.n = 0)
  /\ HasKey("current_ratio") => data["current_ratio"] \notin {Inf, Raise}
  /\ (zeroLiabilitySheets = 2 /\ pc \notin {"annual", "quarterly"})
       => (HasKey("current_ratio") /\ data["current_ratio"] = None)

C5_Witness ==
  /\ Returned
  /\ zeroLiabilitySheets = 2
  /\ raisedCalls = {}
  /\ data["current_ratio"] = None

\* total_revenue as C6 words it
C6_Revenue(r) ==
  IF r.raises THEN None
  ELSE LET fin == r.payload
           row == IF "Total Revenue" \in DOMAIN fin THEN fin["Total Revenue"]
                  ELSE IF "TotalRevenue" \in DOMAIN fin THEN fin["TotalRevenue"]
                  ELSE <<>>
       IN  IF Len(row) = 0 THEN None
           ELSE IF Usable(row[1]) THEN row[1] ELSE None

\* C6: total_revenue is the most recent value of the row "Total Revenue", or
\* of the row "TotalRevenue" only when no row is labelled "Total Revenue";
\* it is None when neither row exists, the table has no period, the value is
\* zero or None, or the fetch raised.
C6_Step == pc = "revenue" => data'["total_revenue"] = C6_Revenue(resp)

C6_RevenueByAliasOrder == [][C6_Step]_vars

C6_Witness ==
  /\ Returned
  /\ data["total_revenue"] = Num(100)

\* C7: volatility and liquidity are None together: both are None when the
\* history fetch raised or the series has fewer than 2 points, and no step
\* leaves exactly one of them None.
C7_Step ==
  pc = "history" =>
    /\ (resp.raises \/ Len(resp.payload.bars) < 2) =>
         (data'["volatility"] = None /\ data'["liquidity"] = None)
    /\ (data'["volatility"] = None) <=> (data'["liquidity"] = None)

C7_NullTogether == [][C7_Step]_vars

InsertStep == insertAttempts' = insertAttempts + 1

\* C8 as claimed: every call of save_to_mongodb that the store answers
\* succeeds and grows the collection by one document, the same record passed
\* again included.
C8_ClaimedStep ==
  (InsertStep /\ err' # "ServerSelectionTimeoutError") =>
    (err' = NoError /\ Len(collection') = Len(collection) + 1)

C8_Step ==
  InsertStep =>
    /\ err' = NoError =>
         /\ collection' = Append(collection, data')
         /\ data'["_id"] \notin Ids(collection)
    /\ err' # NoError => collection' = collection
    /\ ~HasKey("_id") => err' \in {NoError, "ServerSelectionTimeoutError"}
    /\ (HasKey("_id") /\ data["_id"] \in Ids(collection)) =>
         err' \in {"DuplicateKeyError", "ServerSelectionTimeoutError"}
    /\ (HasKey("_id") /\ data["_id"] \notin Ids(collection)) =>
         err' \in {NoError, "ServerSelectionTimeoutError"}

C9_ClaimedStep == pc \in {"save", "report", "except"} => UNCHANGED data

C9_Step ==
  pc \in {"save", "report", "except"} =>
    /\ \A k \in DOMAIN data : k \in DOMAIN data' /\ data'[k] = data[k]
    /\ DOMAIN data' \subseteq (DOMAIN data) \cup {"_id"}
    /\ pc = "save" => "_id" \in DOMAIN data'

Tags(seq) == [i \in DOMAIN seq |-> seq[i].line]

C10_Safety ==
  /\ insertAttempts <= 1
  /\ insertAttempts = 1 => (DocumentedKeys \subseteq DOMAIN data /\ err # "ProviderError")
  /\ err = "ProviderError" => (insertAttempts = 0 /\ collection = <<>>)
  /\ (\E i \in DOMAIN out : out[i].line = "completed") =>
       (Len(collection) = 1 /\ insertAttempts = 1 /\ err = NoError)
  /\ pc = "done" =>
       \/ /\ err = "ProviderError"
          /\ Tags(out) = <<"fetching", "error">>
       \/ /\ err \notin {NoError, "ProviderError"}
          /\ Tags(out) = <<"fetching", "saving", "error">>
          /\ collection = <<>>
       \/ /\ err = NoError
          /\ Tags(out) = <<"fetching", "saving", "saved", "completed", "record">>
          /\ Len(collection) = 1

\* C10: every run is prompt, build, persist, report, in that order, and
\* ends: at most one insert, made only after the builder returned; a raise
\* of the builder or of the insert prints the error and neither the
\* completion message nor the record, and persists nothing; otherwise one
\* document is inserted before the completion message is printed.
C10_LinearRunTerminates == []C10_Safety /\ <>(pc = "done")

C10_Witness ==
  /\ pc = "done"
  /\ err = NoError
  /\ Len(collection) = 1
  /\ Tags(out) = <<"fetching", "saving", "saved", "completed", "record">>

====
